---- MODULE Spec2Model ----
(***************************************************************************)
(* Monte Carlo CFR engine of leduc/cfr/mccfr.py (class MonteCarloCFR).     *)
(*                                                                         *)
(* The recursive traversals (mccfr, update_strategy, traverse_tree and the *)
(* subgame variants) are modelled as a call stack of frames, one action    *)
(* per code segment between two calls.  Floating point values are modelled *)
(* as exact rationals <<numerator, denominator>>.  The InfoSet class, the  *)
(* game State class and the VanillaCFR base class are not part of the      *)
(* sources at hand; they are modelled from the written specification.      *)
(***************************************************************************)
EXTENDS Integers, Sequences, FiniteSets, TLC

(***************************************************************************)
(* Bounds of the model.                                                    *)
(***************************************************************************)
\* longest training run (iterations argument of train) with unit stakes
MaxIter == 401
\* longest training run with large stakes (regrets cross regret_minimum)
MaxIterBig == 203
\* number of direct discount calls made in a row
MaxDiscounts == 2
\* largest iteration number handed to a direct discount(t) call
MaxDiscountT == 3
\* longest subgame_solve run
MaxSubIter == 202
\* number of information sets the caller freezes during a run
MaxFrozen == 1

(***************************************************************************)
(* Program constants (MonteCarloCFR.__init__).                             *)
(***************************************************************************)
regret_minimum == -300000
strategy_interval == 100
prune_threshold == 200
discount_interval == 100
lcfr_threshold == 400
num_players == 2

Players == 0 .. (num_players - 1)
\* the action alphabet of the two-action game ('P' pass, 'B' bet)
actions == <<"P", "B">>
continuation == {"1", "2", "3", "4"}
\* iteration order of the continuation set
continuation_list == <<"1", "2", "3", "4">>

(***************************************************************************)
(* Exact arithmetic standing for the float arithmetic of the code.         *)
(***************************************************************************)
\* The arithmetic is written as functions, so that an argument is evaluated
\* once, where it is applied.
Abs(x) == IF x < 0 THEN -x ELSE x

\* greatest common divisor, by Euclid's algorithm
GCD[a \in Nat, b \in Nat] == IF b = 0 THEN a ELSE GCD[b, a % b]

LCM[a \in Nat, b \in Nat] == (a \div GCD[a, b]) * b

\* the rational n/d in lowest terms, d > 0
Rat(n, d) == [p \in {<<n, d>>} |->
                 LET g == GCD[Abs(p[1]), p[2]] IN <<p[1] \div g, p[2] \div g>>][<<n, d>>]

\* the rationals: <<numerator, denominator>>
Q == Int \X (Nat \ {0})

Zero == <<0, 1>>
One == <<1, 1>>
FromInt(n) == <<n, 1>>

Sum[x \in Q, y \in Q] ==
    LET l == LCM[x[2], y[2]]
        n == x[1] * (l \div x[2]) + y[1] * (l \div y[2])
        g == GCD[Abs(n), l]
    IN  <<n \div g, l \div g>>

RAdd(x, y) == Sum[x, y]

Negated[x \in Q] == <<-x[1], x[2]>>

RNeg(x) == Negated[x]

RSub(x, y) == RAdd(x, RNeg(y))

Product[x \in Q, y \in Q] ==
    LET g1 == GCD[Abs(x[1]), y[2]]
        g2 == GCD[Abs(y[1]), x[2]]
        n == (x[1] \div g1) * (y[1] \div g2)
        d == (x[2] \div g2) * (y[2] \div g1)
        g == GCD[Abs(n), d]
    IN  <<n \div g, d \div g>>

RMul(x, y) == Product[x, y]

Inverse[y \in Q] == IF y[1] > 0 THEN <<y[2], y[1]>> ELSE <<-y[2], -y[1]>>

\* x / y for y # 0
RDiv(x, y) == RMul(x, Inverse[y])

Less[x \in Q, y \in Q] ==
    LET l == LCM[x[2], y[2]]
    IN  x[1] * (l \div x[2]) < y[1] * (l \div y[2])

RLt(x, y) == Less[x, y]

RLe(x, y) == ~RLt(y, x)

Positive[x \in Q] == IF x[1] > 0 THEN x ELSE Zero

RMax0(x) == Positive[x]

\* the value of a call that returns nothing
None == <<>>

\* np.zeros(self.num_players)
ZeroVec == [p \in Players |-> Zero]

Vectors == [Players -> Q]

VecSum[u \in Vectors, v \in Vectors] == [p \in Players |-> RAdd(u[p], v[p])]

VecAdd(u, v) == VecSum[u, v]

Scaling[u \in Vectors, c \in Q] == [p \in Players |-> RMul(u[p], c)]

VecScale(u, c) == Scaling[u, c]

RECURSIVE SumOver(_, _)
\* sum of f[a] over the actions of the list acts
SumOver(f, acts) ==
    IF acts = <<>> THEN Zero
    ELSE RAdd(f[Head(acts)], SumOver(f, Tail(acts)))

Range(s) == {s[k] : k \in 1 .. Len(s)}

(***************************************************************************)
(* InfoSet: regret matching and strategy averaging.                        *)
(***************************************************************************)
\* InfoSet(self.actions): both mappings keyed by the action alphabet, zero
NewInfoSet ==
    [regret_sum |-> [a \in Range(actions) |-> Zero],
     strategy_sum |-> [a \in Range(actions) |-> Zero],
     is_frozen |-> FALSE]

\* an action never seen has implicitly zero regret / strategy weight
Get(m, a) == IF a \in DOMAIN m THEN m[a] ELSE Zero

Put(m, a, v) == [b \in (DOMAIN m) \cup {a} |-> IF b = a THEN v ELSE m[b]]

\* node.strategy(valid_actions): regret matching over the legal actions
Strategy(node, valid) ==
    LET pos == [a \in Range(valid) |-> RMax0(Get(node.regret_sum, a))]
        norm_sum == SumOver(pos, valid)
    IN  IF RLt(Zero, norm_sum)
        THEN [a \in Range(valid) |-> RDiv(pos[a], norm_sum)]
        ELSE [a \in Range(valid) |-> Rat(1, Len(valid))]

\* node.avg_strategy(): normalised strategy_sum over the action alphabet
AvgStrategy(node) ==
    LET norm_sum == SumOver([a \in Range(actions) |-> Get(node.strategy_sum, a)], actions)
    IN  IF RLt(Zero, norm_sum)
        THEN [a \in Range(actions) |-> RDiv(Get(node.strategy_sum, a), norm_sum)]
        ELSE [a \in Range(actions) |-> Rat(1, Len(actions))]

(***************************************************************************)
(* State variables.                                                        *)
(***************************************************************************)
VARIABLES
    cards,          \* the cards list handed to train (shuffled in place)
    raise_size,     \* settings['raise_size']: the stake of the game
    node_map,       \* self.node_map: <<player, info set>> -> InfoSet
    strategy,       \* self.strategy of the subgame solver
    stack,          \* the call stack of the running traversal, top first
    ret,            \* value returned by the last completed outermost call
    exc,            \* the exception being raised, "none" when there is none
    pc,             \* position of the outermost caller
    iterations,     \* the iterations argument
    t,              \* loop variable of train / subgame_solve
    player,         \* loop variable 'player' of the outermost caller
    combos,         \* expected_utility: deals still to be traversed
    expected,       \* expected_utility: accumulated utility vector
    log             \* history of the run, read only by the properties

vars == <<cards, raise_size, node_map, strategy, stack, ret, exc, pc,
          iterations, t, player, combos, expected, log>>

(***************************************************************************)
(* The game State consumed by the engine: a blind-bet game of three moves. *)
(* Player 0 acts, player 1 acts without seeing that action, player 0 acts  *)
(* again remembering only its own first action, then the showdown.         *)
(***************************************************************************)
\* self.state(self.state_json): the root state for the current deal
RootState(cs) == [cards |-> cs, hist |-> <<>>]

is_terminal(s) == Len(s.hist) = 3

turn(s) == IF Len(s.hist) = 1 THEN 1 ELSE 0

\* label of the acting player's information set: own card, own past action
info_set(s) ==
    IF Len(s.hist) = 0 THEN <<s.cards[1], <<>>>>
    ELSE IF Len(s.hist) = 1 THEN <<s.cards[2], <<>>>>
    ELSE <<s.cards[1], <<s.hist[1]>>>>

valid_actions(s) == actions

\* state.add(player, action): a new state value, the receiver is unchanged
add(s, a) == [s EXCEPT !.hist = Append(@, a)]

Sign(x) == IF x > 0 THEN 1 ELSE IF x < 0 THEN -1 ELSE 0

\* chips won by player 0 from the three moves, per unit of stake
Chips(h) ==
    (IF h[1] = "B" THEN 2 ELSE 0)
    - (IF h[2] = "B" THEN 1 ELSE 0)
    + (IF h[1] # h[3] THEN 1 ELSE 0)

\* state.payoff(): zero-sum utility vector of a terminal state
payoff(s) ==
    LET u0 == raise_size * Chips(s.hist) + Sign(s.cards[1] - s.cards[2])
    IN  [p \in Players |-> IF p = 0 THEN FromInt(u0) ELSE FromInt(-u0)]

\* key of the acting player's node: self.node_map[curr_player][info_set]
NodeKey(s) == <<turn(s), info_set(s)>>

\* player_nodes.setdefault(info_set, InfoSet(self.actions))
SetDefault(nm, key) == IF key \in DOMAIN nm THEN nm ELSE nm @@ (key :> NewInfoSet)

(***************************************************************************)
(* Call stack.                                                             *)
(***************************************************************************)
Frame(fn, p, s, prune) ==
    [fn |-> fn, player |-> p, state |-> s, prune |-> prune, pc |-> "start",
     i |-> 1, strategy |-> <<>>, expected_value |-> ZeroVec,
     utilities |-> <<>>, explored |-> {}]

Running == stack # <<>> /\ exc = "none"
top == stack[1]
TopIs(fn, where) == Running /\ top.fn = fn /\ top.pc = where

\* tree_node.is_leaf: the pre-built subgame tree stops at player 0's second
\* move after a bet; after a pass it runs on to the showdown
is_leaf(s) == Len(s.hist) = 2 /\ s.hist[1] = "B"

\* tree_node.value(curr_player, self.node_map, a): the caller-supplied value
\* of continuing with a at a leaf
LeafValue(s, a) ==
    LET w == IF a = "1" THEN 0 ELSE IF a = "2" THEN 1 ELSE IF a = "3" THEN 2 ELSE 3
        u0 == raise_size * (2 - (IF s.hist[2] = "B" THEN 1 ELSE 0) + w)
              + Sign(s.cards[1] - s.cards[2])
    IN  [p \in Players |-> IF p = 0 THEN FromInt(u0) ELSE FromInt(-u0)]

\* the actions the loop of a frame runs over
LoopActions(f) ==
    IF f.fn \in {"subgame_mccfr", "subgame_update_strategy"} /\ is_leaf(f.state)
    THEN continuation_list
    ELSE valid_actions(f.state)

\* the frame of a caller once its pending call has returned v
Resume(f, v) ==
    LET a == LoopActions(f)[f.i]
        curr_player == turn(f.state)
    IN  IF f.fn \in {"mccfr", "subgame_mccfr"} /\ f.pc = "call"
        THEN [f EXCEPT !.utilities = Put(@, a, v[curr_player]),
                       !.expected_value = VecAdd(@, VecScale(v, f.strategy[a])),
                       !.explored = IF f.prune THEN @ \cup {a} ELSE @,
                       !.i = @ + 1,
                       !.pc = "loop"]
        ELSE IF f.fn \in {"mccfr", "subgame_mccfr"}
        THEN [f EXCEPT !.expected_value = v, !.pc = "return"]
        ELSE IF f.fn = "traverse_tree"
        THEN [f EXCEPT !.expected_value = VecAdd(@, VecScale(v, f.strategy[a])),
                       !.i = @ + 1,
                       !.pc = "loop"]
        ELSE IF f.pc = "call"
        THEN [f EXCEPT !.i = @ + 1, !.pc = "loop"]
        ELSE [f EXCEPT !.pc = "return"]

\* the top frame returns v to its caller
Return(v) ==
    LET rest == Tail(stack)
    IN  IF rest = <<>>
        THEN stack' = <<>> /\ ret' = v
        ELSE stack' = <<Resume(rest[1], v)>> \o Tail(rest) /\ ret' = ret

\* the top frame calls fn on the state s and waits at position where
Call(where, fn, s, prune) ==
    stack' = <<Frame(fn, top.player, s, prune), [top EXCEPT !.pc = where]>>
             \o Tail(stack)

\* the top frame moves on without calling or returning
Step(f) == stack' = <<f>> \o Tail(stack)

loopVars == <<cards, raise_size, pc, iterations, t, player, combos, expected>>
callerVars == <<loopVars, log>>

(***************************************************************************)
(* mccfr(player, state, prune): external-sampling traversal.               *)
(***************************************************************************)
\* a variant that also explores an action whose regret equals regret_minimum
ShouldExplore_AtMinimum(prune, regret) == ~prune \/ RLe(FromInt(regret_minimum), regret)

\* a variant with the sign of the threshold lost: only a regret above
\* -regret_minimum is explored
ShouldExplore_Above(prune, regret) == ~prune \/ RLt(FromInt(-regret_minimum), regret)

\* lines 142-143: an action is recursed into unless pruning skips it
ShouldExplore(prune, regret) == ~prune \/ RLt(FromInt(regret_minimum), regret)

\* a variant that updates the regret of every legal action, explored or not
UpdatedRegrets_All(f, node) ==
    LET curr_player == turn(f.state)
        valid == Range(LoopActions(f))
        old == node.regret_sum
    IN  [a \in (DOMAIN old) \cup valid |->
            IF a \in valid
            THEN RAdd(Get(old, a), RSub(f.utilities[a], f.expected_value[curr_player]))
            ELSE old[a]]

\* lines 155-162: the regret sums of the node after the visit of frame f
UpdatedRegrets(f, node) ==
    LET curr_player == turn(f.state)
        valid == Range(LoopActions(f))
        old == node.regret_sum
    IN  [a \in (DOMAIN old) \cup valid |->
            IF a \in valid /\ (~f.prune \/ a \in f.explored)
            THEN RAdd(Get(old, a), RSub(f.utilities[a], f.expected_value[curr_player]))
            ELSE old[a]]

\* record of a completed visit of a traversing-player node
Visit(f, key) ==
    [key |-> key, prune |-> f.prune,
     explored |-> IF f.prune THEN f.explored ELSE Range(LoopActions(f)),
     skipped |-> IF f.prune THEN Range(LoopActions(f)) \ f.explored ELSE {}]

\* lines 122-124
MccfrTerminal ==
    /\ TopIs("mccfr", "start")
    /\ is_terminal(top.state)
    /\ Return(payoff(top.state))
    /\ UNCHANGED <<node_map, strategy, exc, callerVars>>

\* lines 128-139: the traversing player's node is entered
MccfrEnter ==
    /\ TopIs("mccfr", "start")
    /\ ~is_terminal(top.state)
    /\ turn(top.state) = top.player
    /\ LET key == NodeKey(top.state)
           nm == SetDefault(node_map, key)
           valid == valid_actions(top.state)
       IN  /\ node_map' = nm
           /\ Step([top EXCEPT !.pc = "loop",
                               !.i = 1,
                               !.strategy = Strategy(nm[key], valid),
                               !.expected_value = ZeroVec,
                               !.utilities = [a \in Range(valid) |-> Zero],
                               !.explored = {}])
    /\ UNCHANGED <<strategy, ret, exc, callerVars>>

\* lines 141-153: the loop recurses into the next action
MccfrExplore ==
    /\ TopIs("mccfr", "loop")
    /\ top.i <= Len(LoopActions(top))
    /\ LET a == LoopActions(top)[top.i]
       IN  /\ ShouldExplore(top.prune, Get(node_map[NodeKey(top.state)].regret_sum, a))
           /\ Call("call", "mccfr", add(top.state, a), top.prune)
    /\ UNCHANGED <<node_map, strategy, ret, exc, callerVars>>

\* lines 142-143: the loop skips a pruned action
MccfrSkip ==
    /\ TopIs("mccfr", "loop")
    /\ top.i <= Len(LoopActions(top))
    /\ LET a == LoopActions(top)[top.i]
       IN  ~ShouldExplore(top.prune, Get(node_map[NodeKey(top.state)].regret_sum, a))
    /\ Step([top EXCEPT !.i = @ + 1])
    /\ UNCHANGED <<node_map, strategy, ret, exc, callerVars>>

\* lines 155-164: regret update and return of the expected value
MccfrUpdate ==
    /\ TopIs("mccfr", "loop")
    /\ top.i > Len(LoopActions(top))
    /\ LET key == NodeKey(top.state)
       IN  /\ node_map' = [node_map EXCEPT
                              ![key].regret_sum = UpdatedRegrets(top, node_map[key])]
           /\ log' = [log EXCEPT !.visit = Visit(top, key)]
    /\ Return(top.expected_value)
    /\ UNCHANGED <<strategy, exc, loopVars>>

\* a variant that may sample any legal action, whatever its probability
MccfrSample_Any ==
    /\ TopIs("mccfr", "start")
    /\ ~is_terminal(top.state)
    /\ turn(top.state) # top.player
    /\ node_map' = SetDefault(node_map, NodeKey(top.state))
    /\ \E random_action \in Range(valid_actions(top.state)) :
          Call("tail", "mccfr", add(top.state, random_action), top.prune)
    /\ UNCHANGED <<strategy, ret, exc, callerVars>>

\* lines 166-177: another actor's node, one action is sampled
MccfrSample ==
    /\ TopIs("mccfr", "start")
    /\ ~is_terminal(top.state)
    /\ turn(top.state) # top.player
    /\ LET key == NodeKey(top.state)
           nm == SetDefault(node_map, key)
           strat == Strategy(nm[key], valid_actions(top.state))
       IN  /\ node_map' = nm
           /\ \E random_action \in DOMAIN strat :
                 /\ RLt(Zero, strat[random_action])
                 /\ Call("tail", "mccfr", add(top.state, random_action), top.prune)
    /\ UNCHANGED <<strategy, ret, exc, callerVars>>

\* line 177: the sampled child's utility is returned unchanged
MccfrSampleReturn ==
    /\ TopIs("mccfr", "return")
    /\ Return(top.expected_value)
    /\ UNCHANGED <<node_map, strategy, exc, callerVars>>

MccfrStep ==
    \/ MccfrTerminal
    \/ MccfrEnter
    \/ MccfrExplore
    \/ MccfrSkip
    \/ MccfrUpdate
    \/ MccfrSample
    \/ MccfrSampleReturn

(***************************************************************************)
(* update_strategy(player, state): strategy-sum traversal.                 *)
(***************************************************************************)
\* lines 193-194
UsTerminal ==
    /\ TopIs("update_strategy", "start")
    /\ is_terminal(top.state)
    /\ Return(None)
    /\ UNCHANGED <<node_map, strategy, exc, callerVars>>

\* a variant that counts the sampled action twice
Incremented_Twice(node, random_action) ==
    [node EXCEPT !.strategy_sum =
        Put(@, random_action, RAdd(Get(@, random_action), FromInt(2)))]

\* line 209: node.strategy_sum[random_action] += 1
Incremented(node, random_action) ==
    [node EXCEPT !.strategy_sum =
        Put(@, random_action, RAdd(Get(@, random_action), One))]

\* lines 197-212: the player's own node, one action is sampled and counted
UsSample ==
    /\ TopIs("update_strategy", "start")
    /\ ~is_terminal(top.state)
    /\ turn(top.state) = top.player
    /\ LET key == NodeKey(top.state)
           nm == SetDefault(node_map, key)
           strat == Strategy(nm[key], valid_actions(top.state))
       IN  \E random_action \in DOMAIN strat :
             /\ RLt(Zero, strat[random_action])
             /\ node_map' = [nm EXCEPT ![key] = Incremented(@, random_action)]
             /\ Call("tail", "update_strategy", add(top.state, random_action), FALSE)
    /\ UNCHANGED <<strategy, ret, exc, callerVars>>

\* line 212: the call on the sampled branch has returned
UsSampleReturn ==
    /\ TopIs("update_strategy", "return")
    /\ Return(None)
    /\ UNCHANGED <<node_map, strategy, exc, callerVars>>

\* lines 214-219: another actor's node is entered
UsEnter ==
    /\ TopIs("update_strategy", "start")
    /\ ~is_terminal(top.state)
    /\ turn(top.state) # top.player
    /\ node_map' = SetDefault(node_map, NodeKey(top.state))
    /\ Step([top EXCEPT !.pc = "loop", !.i = 1])
    /\ UNCHANGED <<strategy, ret, exc, callerVars>>

\* lines 220-222: the loop recurses into the next legal action
UsLoop ==
    /\ TopIs("update_strategy", "loop")
    /\ top.i <= Len(LoopActions(top))
    /\ Call("call", "update_strategy", add(top.state, LoopActions(top)[top.i]), FALSE)
    /\ UNCHANGED <<node_map, strategy, ret, exc, callerVars>>

\* line 222: the loop is over
UsLoopEnd ==
    /\ TopIs("update_strategy", "loop")
    /\ top.i > Len(LoopActions(top))
    /\ Return(None)
    /\ UNCHANGED <<node_map, strategy, exc, callerVars>>

UsStep ==
    \/ UsTerminal
    \/ UsSample
    \/ UsSampleReturn
    \/ UsEnter
    \/ UsLoop
    \/ UsLoopEnd

(***************************************************************************)
(* traverse_tree(state): expected utility under the average strategy.      *)
(***************************************************************************)
\* lines 430-432
TtTerminal ==
    /\ TopIs("traverse_tree", "start")
    /\ is_terminal(top.state)
    /\ Return(payoff(top.state))
    /\ UNCHANGED <<node_map, strategy, exc, callerVars>>

\* lines 433-441: the node is looked up and its average strategy computed
TtEnter ==
    /\ TopIs("traverse_tree", "start")
    /\ ~is_terminal(top.state)
    /\ LET key == NodeKey(top.state)
           nm == SetDefault(node_map, key)
       IN  /\ node_map' = nm
           /\ Step([top EXCEPT !.pc = "loop",
                               !.i = 1,
                               !.strategy = AvgStrategy(nm[key]),
                               !.expected_value = ZeroVec])
    /\ UNCHANGED <<strategy, ret, exc, callerVars>>

\* lines 442-444
TtLoop ==
    /\ TopIs("traverse_tree", "loop")
    /\ top.i <= Len(LoopActions(top))
    /\ Call("call", "traverse_tree", add(top.state, LoopActions(top)[top.i]), FALSE)
    /\ UNCHANGED <<node_map, strategy, ret, exc, callerVars>>

\* line 446
TtReturn ==
    /\ TopIs("traverse_tree", "loop")
    /\ top.i > Len(LoopActions(top))
    /\ Return(top.expected_value)
    /\ UNCHANGED <<node_map, strategy, exc, callerVars>>

TtStep ==
    \/ TtTerminal
    \/ TtEnter
    \/ TtLoop
    \/ TtReturn

(***************************************************************************)
(* Failures: an exception unwinds the stack frame by frame.                *)
(***************************************************************************)
\* the kind of the exception once it has left frame f: the bare except of
\* traverse_tree (lines 448-450) replaces whatever reaches it
Rethrown(f, kind) ==
    IF f.fn = "traverse_tree" /\ f.pc # "start" THEN "UserWarning" ELSE kind

\* an asynchronous failure (KeyboardInterrupt) hits the running traversal
Interrupt ==
    /\ Running
    /\ exc' = "KeyboardInterrupt"
    /\ UNCHANGED <<node_map, strategy, stack, ret, callerVars>>

\* the exception leaves the top frame
Unwind ==
    /\ stack # <<>>
    /\ exc # "none"
    /\ exc' = Rethrown(top, exc)
    /\ stack' = Tail(stack)
    /\ UNCHANGED <<node_map, strategy, ret, callerVars>>

(***************************************************************************)
(* discount(t).                                                            *)
(***************************************************************************)
\* a variant with floor division, as t/discount_interval is under Python 2
DiscountFactor_Floor(tt) ==
    LET k == FromInt(tt \div discount_interval)
    IN  RDiv(k, RAdd(k, One))

\* line 103: (t/discount_interval) / ((t/discount_interval) + 1)
DiscountFactor(tt) ==
    LET k == Rat(tt, discount_interval)
    IN  RDiv(k, RAdd(k, One))

Scaled(m, d) == [a \in DOMAIN m |-> RMul(m[a], d)]

\* lines 104-108: every node of every player is rescaled
Discounted(nm, d) ==
    [key \in DOMAIN nm |->
        [nm[key] EXCEPT !.regret_sum = Scaled(@, d),
                        !.strategy_sum = Scaled(@, d)]]

(***************************************************************************)
(* train(cards, iterations).                                               *)
(***************************************************************************)
\* settings['num_cards'] = num_players + num_rounds - 1 with one round
num_cards == 2

\* random.shuffle(cards): the orders the list can be left in
Shuffles(cs) ==
    {[k \in 1 .. Len(cs) |-> cs[q[k]]] : q \in Permutations(1 .. Len(cs))}

\* line 404: set(permutations(cards, self.num_cards))
AllCombos(cs) == {SubSeq(q, 1, num_cards) : q \in Shuffles(cs)}

\* the decks and iteration counts train is called with
TrainInputs ==
    IF raise_size = 1
    THEN {[cards |-> <<1, 1>>, iterations |-> n] : n \in {0, MaxIter}}
         \cup {[cards |-> <<1, 2>>, iterations |-> n] : n \in {1, 2}}
    ELSE {[cards |-> <<1, 1>>, iterations |-> MaxIterBig]}

\* a variant that lets pruning start at iteration prune_threshold itself
PruneChoices_From(tt) == IF tt >= prune_threshold THEN {FALSE, TRUE} ELSE {FALSE}

\* lines 71-78: the pruning modes the traversal of iteration tt may run in
PruneChoices(tt) == IF tt > prune_threshold THEN {FALSE, TRUE} ELSE {FALSE}

\* a variant that runs update_strategy one iteration late
StrategyDue_Late(tt) == tt % strategy_interval = 1

\* line 69
StrategyDue(tt) == tt % strategy_interval = 0

\* a variant that still discounts at iteration lcfr_threshold
DiscountDue_Through(tt) == tt <= lcfr_threshold /\ tt % discount_interval = 0

\* line 80
DiscountDue(tt) == tt < lcfr_threshold /\ tt % discount_interval = 0

\* a variant of the loop range that stops one iteration short
InRange_Short(tt, n) == tt < n

\* line 65: range(1, iterations+1) still has a value for tt
InRange(tt, n) == tt <= n

Idle == stack = <<>> /\ exc = "none"

Logged(fn, prune) == [log EXCEPT !.calls = Append(@, <<player, fn, prune>>)]

\* line 53: train is called
TrainCall ==
    /\ pc = "idle"
    /\ \E in \in TrainInputs :
         /\ cards' = in.cards
         /\ iterations' = in.iterations
    /\ t' = 1
    /\ pc' = "loop"
    /\ UNCHANGED <<raise_size, node_map, strategy, stack, ret, exc, player,
                   combos, expected, log>>

\* lines 65-67: next iteration, the cards are shuffled
TrainLoop ==
    /\ pc = "loop"
    /\ InRange(t, iterations)
    /\ cards' \in Shuffles(cards)
    /\ player' = 0
    /\ pc' = "player"
    /\ log' = [log EXCEPT !.calls = <<>>]
    /\ UNCHANGED <<raise_size, node_map, strategy, stack, ret, exc,
                   iterations, t, combos, expected>>

\* lines 68-70: update_strategy is run for the player
TrainUpdateStrategy ==
    /\ pc = "player"
    /\ StrategyDue(t)
    /\ stack' = <<Frame("update_strategy", player, RootState(cards), FALSE)>>
    /\ pc' = "updated"
    /\ log' = Logged("update_strategy", FALSE)
    /\ UNCHANGED <<cards, raise_size, node_map, strategy, ret, exc,
                   iterations, t, player, combos, expected>>

\* lines 71-78: mccfr is run for the player, pruned or not
TrainMccfr ==
    /\ \/ pc = "player" /\ ~StrategyDue(t)
       \/ pc = "updated" /\ Idle
    /\ \E prune \in PruneChoices(t) :
         /\ stack' = <<Frame("mccfr", player, RootState(cards), prune)>>
         /\ log' = Logged("mccfr", prune)
    /\ pc' = "traversed"
    /\ UNCHANGED <<cards, raise_size, node_map, strategy, ret, exc,
                   iterations, t, player, combos, expected>>

\* line 67: the traversal is over, on to the next player
TrainNextPlayer ==
    /\ pc = "traversed"
    /\ Idle
    /\ player' = player + 1
    /\ pc' = IF player + 1 < num_players THEN "player" ELSE "discount"
    /\ UNCHANGED <<cards, raise_size, node_map, strategy, stack, ret, exc,
                   iterations, t, combos, expected, log>>

\* lines 80-81: end of the iteration, the sums are discounted when due
TrainDiscount ==
    /\ pc = "discount"
    /\ IF DiscountDue(t)
       THEN /\ node_map' = Discounted(node_map, DiscountFactor(t))
            /\ log' = [log EXCEPT !.discounts = @ \cup {t}, !.completed = @ + 1]
       ELSE /\ node_map' = node_map
            /\ log' = [log EXCEPT !.completed = @ + 1]
    /\ t' = t + 1
    /\ pc' = "loop"
    /\ UNCHANGED <<cards, raise_size, strategy, stack, ret, exc, iterations,
                   player, combos, expected>>

\* lines 83, 404-406: the loop is over, expected_utility starts
TrainEvaluate ==
    /\ pc = "loop"
    /\ ~InRange(t, iterations)
    /\ combos' = AllCombos(cards)
    /\ expected' = ZeroVec
    /\ pc' = "combo"
    /\ UNCHANGED <<cards, raise_size, node_map, strategy, stack, ret, exc,
                   iterations, t, player, log>>

\* lines 407-410: the tree of the next deal is traversed
TrainCombo ==
    /\ pc = "combo"
    /\ \E card \in combos :
         /\ combos' = combos \ {card}
         /\ stack' = <<Frame("traverse_tree", 0, RootState(card), FALSE)>>
    /\ pc' = "traversing"
    /\ UNCHANGED <<cards, raise_size, node_map, strategy, ret, exc,
                   iterations, t, player, expected, log>>

\* line 410: expected_utility += self.traverse_tree(state)
TrainComboAdd ==
    /\ pc = "traversing"
    /\ Idle
    /\ expected' = VecAdd(expected, ret)
    /\ pc' = "combo"
    /\ UNCHANGED <<cards, raise_size, node_map, strategy, stack, ret, exc,
                   iterations, t, player, combos, log>>

\* lines 412, 84-100: the utilities are averaged and reported
TrainReport ==
    /\ pc = "combo"
    /\ combos = {}
    /\ ret' = VecScale(expected, Rat(1, Cardinality(AllCombos(cards))))
    /\ pc' = "done"
    /\ UNCHANGED <<cards, raise_size, node_map, strategy, stack, exc,
                   iterations, t, player, combos, expected, log>>

\* an exception that has left the outermost traversal leaves train
TrainFail ==
    /\ pc \in {"updated", "traversed", "traversing"}
    /\ stack = <<>>
    /\ exc # "none"
    /\ pc' = "failed"
    /\ UNCHANGED <<cards, raise_size, node_map, strategy, stack, ret, exc,
                   iterations, t, player, combos, expected, log>>

TrainStep ==
    \/ TrainCall
    \/ TrainLoop
    \/ TrainUpdateStrategy
    \/ TrainMccfr
    \/ TrainNextPlayer
    \/ TrainDiscount
    \/ TrainEvaluate
    \/ TrainCombo
    \/ TrainComboAdd
    \/ TrainReport

\* failures: raised, propagated frame by frame, leaving train
Faults ==
    \/ Interrupt
    \/ Unwind
    \/ TrainFail

NoLog == [calls |-> <<>>, discounts |-> {}, completed |-> 0,
          visit |-> [key |-> <<>>, prune |-> FALSE, explored |-> {}, skipped |-> {}],
          base |-> <<>>, ts |-> <<>>]

\* the object after construction, for either stake
Init ==
    /\ raise_size \in {1, 2000}
    /\ cards = <<>>
    /\ node_map = <<>>
    /\ strategy = <<>>
    /\ stack = <<>>
    /\ ret = None
    /\ exc = "none"
    /\ pc = "idle"
    /\ iterations = 0
    /\ t = 0
    /\ player = 0
    /\ combos = {}
    /\ expected = ZeroVec
    /\ log = NoLog

\* the program without failures
RunNext ==
    \/ TrainStep
    \/ MccfrStep
    \/ UsStep
    \/ TtStep

Next ==
    \/ RunNext
    \/ Faults

\* training, with failures possible at any point of a traversal
Spec == Init /\ [][Next]_vars

\* training absent a failure; the single thread always takes its next step
RunSpec == Init /\ [][RunNext]_vars /\ WF_vars(RunNext)

(***************************************************************************)
(* Direct calls of the public methods on a prepared node map.              *)
(***************************************************************************)
Mk(rP, rB, sP, sB) ==
    [regret_sum |-> ("P" :> FromInt(rP) @@ "B" :> FromInt(rB)),
     strategy_sum |-> ("P" :> FromInt(sP) @@ "B" :> FromInt(sB)),
     is_frozen |-> FALSE]

Fresh == Mk(0, 0, 0, 0)
Mixed == Mk(3, 1, 2, 1)
LowP == Mk(regret_minimum - 1, 2, 0, 3)
LowB == Mk(1, regret_minimum, 1, 0)

\* a node map as training leaves it: at every node either no regret at all
\* or some action with positive regret
RegretShape(nm) ==
    \A key \in DOMAIN nm :
        \/ \A a \in DOMAIN nm[key].regret_sum : nm[key].regret_sum[a] = Zero
        \/ \E a \in DOMAIN nm[key].regret_sum : RLt(Zero, nm[key].regret_sum[a])

RootKey == <<0, <<1, <<>>>>>>
OtherKey == <<1, <<2, <<>>>>>>
PassKey == <<0, <<1, <<"P">>>>>>
BetKey == <<0, <<1, <<"B">>>>>>

PreparedMaps ==
    {(RootKey :> n0) @@ (PassKey :> n2) @@ (BetKey :> n3) @@ m1 :
        n0 \in {Fresh, Mixed, LowP, LowB},
        n2 \in {Fresh, LowP},
        n3 \in {Mixed, LowB},
        m1 \in {<<>>} \cup {(OtherKey :> n1) : n1 \in {Mixed, LowB}}}

CallInit ==
    /\ raise_size = 1
    /\ cards = <<1, 2>>
    /\ node_map \in PreparedMaps
    /\ strategy = <<>>
    /\ stack = <<>>
    /\ ret = None
    /\ exc = "none"
    /\ pc = "ready"
    /\ iterations = 0
    /\ t = 0
    /\ player = 0
    /\ combos = {}
    /\ expected = ZeroVec
    /\ log = NoLog

\* mccfr(p, state, prune) is called on the root state of the deal
DirectMccfr ==
    /\ pc = "ready"
    /\ \E p \in Players, prune \in BOOLEAN :
         stack' = <<Frame("mccfr", p, RootState(cards), prune)>>
    /\ pc' = "busy"
    /\ UNCHANGED <<cards, raise_size, node_map, strategy, ret, exc,
                   iterations, t, player, combos, expected, log>>

\* update_strategy(p, state) is called on the root state of the deal
DirectUpdateStrategy ==
    /\ pc = "ready"
    /\ \E p \in Players :
         stack' = <<Frame("update_strategy", p, RootState(cards), FALSE)>>
    /\ pc' = "busy"
    /\ UNCHANGED <<cards, raise_size, node_map, strategy, ret, exc,
                   iterations, t, player, combos, expected, log>>

\* the call has returned
DirectReturn ==
    /\ pc = "busy"
    /\ Idle
    /\ pc' = "finished"
    /\ UNCHANGED <<cards, raise_size, node_map, strategy, stack, ret, exc,
                   iterations, t, player, combos, expected, log>>

\* discount(tt) is called
DirectDiscount ==
    /\ pc \in {"ready", "finished"}
    /\ Len(log.ts) < MaxDiscounts
    /\ \E tt \in (1 .. MaxDiscountT) \cup {discount_interval} :
         /\ node_map' = Discounted(node_map, DiscountFactor(tt))
         /\ log' = [log EXCEPT !.ts = Append(@, tt),
                               !.base = IF log.ts = <<>> THEN node_map ELSE @]
    /\ pc' = "finished"
    /\ UNCHANGED <<cards, raise_size, strategy, stack, ret, exc,
                   iterations, t, player, combos, expected>>

CallNext ==
    \/ DirectMccfr
    \/ DirectUpdateStrategy
    \/ DirectReturn
    \/ DirectDiscount
    \/ MccfrStep
    \/ UsStep

CallSpec == CallInit /\ [][CallNext]_vars

(***************************************************************************)
(* subgame_mccfr(player, tree_node, prune).                                *)
(***************************************************************************)
\* lines 251-253
SmTerminal ==
    /\ TopIs("subgame_mccfr", "start")
    /\ is_terminal(top.state)
    /\ Return(payoff(top.state))
    /\ UNCHANGED <<node_map, strategy, exc, callerVars>>

\* lines 261, 310-312, 317, 331-333: the node is frozen
SmFrozen ==
    /\ TopIs("subgame_mccfr", "start")
    /\ ~is_terminal(top.state)
    /\ LET key == NodeKey(top.state)
           st == SetDefault(strategy, key)
       IN  /\ st[key].is_frozen
           /\ strategy' = st
    /\ exc' = "NotImplementedError"
    /\ UNCHANGED <<node_map, stack, ret, callerVars>>

\* lines 257-269, 283-284: the traversing player's node is entered
SmEnter ==
    /\ TopIs("subgame_mccfr", "start")
    /\ ~is_terminal(top.state)
    /\ turn(top.state) = top.player
    /\ LET key == NodeKey(top.state)
           st == SetDefault(strategy, key)
           valid == LoopActions(top)
       IN  /\ ~st[key].is_frozen
           /\ strategy' = st
           /\ Step([top EXCEPT !.pc = "loop",
                               !.i = 1,
                               !.strategy = Strategy(st[key], valid),
                               !.expected_value = ZeroVec,
                               !.utilities = [a \in Range(valid) |-> Zero],
                               !.explored = {}])
    /\ UNCHANGED <<node_map, ret, exc, callerVars>>

\* lines 271-281: at a leaf the next continuation action is valued
SmLeafValue ==
    /\ TopIs("subgame_mccfr", "loop")
    /\ is_leaf(top.state)
    /\ top.i <= Len(LoopActions(top))
    /\ LET a == LoopActions(top)[top.i]
       IN  /\ ShouldExplore(top.prune, Get(strategy[NodeKey(top.state)].regret_sum, a))
           /\ Step(Resume([top EXCEPT !.pc = "call"], LeafValue(top.state, a)))
    /\ UNCHANGED <<node_map, strategy, ret, exc, callerVars>>

\* lines 286-298: at an inner node the loop recurses into the next child
SmExplore ==
    /\ TopIs("subgame_mccfr", "loop")
    /\ ~is_leaf(top.state)
    /\ top.i <= Len(LoopActions(top))
    /\ LET a == LoopActions(top)[top.i]
       IN  /\ ShouldExplore(top.prune, Get(strategy[NodeKey(top.state)].regret_sum, a))
           /\ Call("call", "subgame_mccfr", add(top.state, a), top.prune)
    /\ UNCHANGED <<node_map, strategy, ret, exc, callerVars>>

\* lines 273, 288: the loop skips a pruned action
SmSkip ==
    /\ TopIs("subgame_mccfr", "loop")
    /\ top.i <= Len(LoopActions(top))
    /\ LET a == LoopActions(top)[top.i]
       IN  ~ShouldExplore(top.prune, Get(strategy[NodeKey(top.state)].regret_sum, a))
    /\ Step([top EXCEPT !.i = @ + 1])
    /\ UNCHANGED <<node_map, strategy, ret, exc, callerVars>>

\* lines 300-309: regret update and return of the expected value
SmUpdate ==
    /\ TopIs("subgame_mccfr", "loop")
    /\ top.i > Len(LoopActions(top))
    /\ LET key == NodeKey(top.state)
       IN  strategy' = [strategy EXCEPT
                           ![key].regret_sum = UpdatedRegrets(top, strategy[key])]
    /\ Return(top.expected_value)
    /\ UNCHANGED <<node_map, exc, callerVars>>

\* lines 314-329: another actor's node, one action is sampled
SmSample ==
    /\ TopIs("subgame_mccfr", "start")
    /\ ~is_terminal(top.state)
    /\ turn(top.state) # top.player
    /\ LET key == NodeKey(top.state)
           st == SetDefault(strategy, key)
           strat == Strategy(st[key], LoopActions(top))
       IN  /\ ~st[key].is_frozen
           /\ strategy' = st
           /\ \E random_action \in DOMAIN strat :
                 /\ RLt(Zero, strat[random_action])
                 /\ IF is_leaf(top.state)
                    THEN /\ Return(LeafValue(top.state, random_action))
                         /\ exc' = exc
                    ELSE /\ Call("tail", "subgame_mccfr",
                                 add(top.state, random_action), top.prune)
                         /\ UNCHANGED <<ret, exc>>
    /\ UNCHANGED <<node_map, callerVars>>

\* line 329: the sampled child's utility is returned unchanged
SmSampleReturn ==
    /\ TopIs("subgame_mccfr", "return")
    /\ Return(top.expected_value)
    /\ UNCHANGED <<node_map, strategy, exc, callerVars>>

SmStep ==
    \/ SmTerminal
    \/ SmFrozen
    \/ SmEnter
    \/ SmLeafValue
    \/ SmExplore
    \/ SmSkip
    \/ SmUpdate
    \/ SmSample
    \/ SmSampleReturn

(***************************************************************************)
(* subgame_update_strategy(player, tree_node).                             *)
(***************************************************************************)
\* lines 336-337
SuTerminal ==
    /\ TopIs("subgame_update_strategy", "start")
    /\ is_terminal(top.state)
    /\ Return(None)
    /\ UNCHANGED <<node_map, strategy, exc, callerVars>>

\* lines 343, 363-365, 371, 384-385: the node is frozen
SuFrozen ==
    /\ TopIs("subgame_update_strategy", "start")
    /\ ~is_terminal(top.state)
    /\ LET key == NodeKey(top.state)
           st == SetDefault(strategy, key)
       IN  /\ st[key].is_frozen
           /\ strategy' = st
    /\ exc' = "NotImplementedError"
    /\ UNCHANGED <<node_map, stack, ret, callerVars>>

\* lines 340-362 and 372-379: one action is sampled and counted, at the
\* player's own node and at any leaf
SuSample ==
    /\ TopIs("subgame_update_strategy", "start")
    /\ ~is_terminal(top.state)
    /\ turn(top.state) = top.player \/ is_leaf(top.state)
    /\ LET key == NodeKey(top.state)
           st == SetDefault(strategy, key)
           strat == Strategy(st[key], LoopActions(top))
       IN  /\ ~st[key].is_frozen
           /\ \E random_action \in DOMAIN strat :
                 /\ RLt(Zero, strat[random_action])
                 /\ strategy' = [st EXCEPT ![key] = Incremented(@, random_action)]
                 /\ IF is_leaf(top.state)
                    THEN Return(None)
                    ELSE /\ Call("tail", "subgame_update_strategy",
                                 add(top.state, random_action), FALSE)
                         /\ ret' = ret
    /\ UNCHANGED <<node_map, exc, callerVars>>

\* line 362: the call on the sampled branch has returned
SuSampleReturn ==
    /\ TopIs("subgame_update_strategy", "return")
    /\ Return(None)
    /\ UNCHANGED <<node_map, strategy, exc, callerVars>>

\* lines 367-371, 380: another actor's inner node is entered
SuEnter ==
    /\ TopIs("subgame_update_strategy", "start")
    /\ ~is_terminal(top.state)
    /\ turn(top.state) # top.player
    /\ ~is_leaf(top.state)
    /\ LET key == NodeKey(top.state)
           st == SetDefault(strategy, key)
       IN  /\ ~st[key].is_frozen
           /\ strategy' = st
    /\ Step([top EXCEPT !.pc = "loop", !.i = 1])
    /\ UNCHANGED <<node_map, ret, exc, callerVars>>

\* lines 381-383
SuLoop ==
    /\ TopIs("subgame_update_strategy", "loop")
    /\ top.i <= Len(valid_actions(top.state))
    /\ Call("call", "subgame_update_strategy",
            add(top.state, valid_actions(top.state)[top.i]), FALSE)
    /\ UNCHANGED <<node_map, strategy, ret, exc, callerVars>>

\* line 383: the loop is over
SuLoopEnd ==
    /\ TopIs("subgame_update_strategy", "loop")
    /\ top.i > Len(valid_actions(top.state))
    /\ Return(None)
    /\ UNCHANGED <<node_map, strategy, exc, callerVars>>

SuStep ==
    \/ SuTerminal
    \/ SuFrozen
    \/ SuSample
    \/ SuSampleReturn
    \/ SuEnter
    \/ SuLoop
    \/ SuLoopEnd

(***************************************************************************)
(* subgame_solve(nature, strategy, iterations).                            *)
(***************************************************************************)
\* nature.children: the deals at the roots of the pre-built tree
NatureChildren == {<<1, 1>>}

\* lines 224-226: subgame_solve is called, self.strategy starts empty
SolveCall ==
    /\ pc = "idle"
    /\ strategy' = <<>>
    /\ iterations' \in {0, MaxSubIter}
    /\ t' = 1
    /\ pc' = "s_loop"
    /\ UNCHANGED <<cards, raise_size, node_map, stack, ret, exc, player,
                   combos, expected, log>>

\* lines 226-228: next iteration, a root is drawn
SolveLoop ==
    /\ pc = "s_loop"
    /\ InRange(t, iterations)
    /\ cards' \in NatureChildren
    /\ player' = 0
    /\ pc' = "s_player"
    /\ log' = [log EXCEPT !.calls = <<>>]
    /\ UNCHANGED <<raise_size, node_map, strategy, stack, ret, exc,
                   iterations, t, combos, expected>>

\* lines 229-230
SolveUpdateStrategy ==
    /\ pc = "s_player"
    /\ StrategyDue(t)
    /\ stack' = <<Frame("subgame_update_strategy", player, RootState(cards), FALSE)>>
    /\ pc' = "s_updated"
    /\ log' = Logged("subgame_update_strategy", FALSE)
    /\ UNCHANGED <<cards, raise_size, node_map, strategy, ret, exc,
                   iterations, t, player, combos, expected>>

\* lines 231-238
SolveMccfr ==
    /\ \/ pc = "s_player" /\ ~StrategyDue(t)
       \/ pc = "s_updated" /\ Idle
    /\ \E prune \in PruneChoices(t) :
         /\ stack' = <<Frame("subgame_mccfr", player, RootState(cards), prune)>>
         /\ log' = Logged("subgame_mccfr", prune)
    /\ pc' = "s_traversed"
    /\ UNCHANGED <<cards, raise_size, node_map, strategy, ret, exc,
                   iterations, t, player, combos, expected>>

\* line 228: on to the next player
SolveNextPlayer ==
    /\ pc = "s_traversed"
    /\ Idle
    /\ player' = player + 1
    /\ pc' = IF player + 1 < num_players THEN "s_player" ELSE "s_discount"
    /\ UNCHANGED <<cards, raise_size, node_map, strategy, stack, ret, exc,
                   iterations, t, combos, expected, log>>

\* lines 240-246: every node of self.strategy is rescaled when due
SolveDiscount ==
    /\ pc = "s_discount"
    /\ IF DiscountDue(t)
       THEN /\ strategy' = Discounted(strategy, DiscountFactor(t))
            /\ log' = [log EXCEPT !.discounts = @ \cup {t}, !.completed = @ + 1]
       ELSE /\ strategy' = strategy
            /\ log' = [log EXCEPT !.completed = @ + 1]
    /\ t' = t + 1
    /\ pc' = "s_loop"
    /\ UNCHANGED <<cards, raise_size, node_map, stack, ret, exc, iterations,
                   player, combos, expected>>

\* line 248: the loop is over, self.strategy is handed back
SolveReturn ==
    /\ pc = "s_loop"
    /\ ~InRange(t, iterations)
    /\ pc' = "s_done"
    /\ UNCHANGED <<cards, raise_size, node_map, strategy, stack, ret, exc,
                   iterations, t, player, combos, expected, log>>

\* the NotImplementedError unwinds the traversal and leaves subgame_solve
SolveFail ==
    /\ pc \in {"s_updated", "s_traversed"}
    /\ stack = <<>>
    /\ exc # "none"
    /\ pc' = "s_failed"
    /\ UNCHANGED <<cards, raise_size, node_map, strategy, stack, ret, exc,
                   iterations, t, player, combos, expected, log>>

\* the information sets the running traversal is at
StackKeys == {NodeKey(stack[k].state) : k \in {j \in 1 .. Len(stack) : ~is_terminal(stack[j].state)}}

FrozenKeys == {key \in DOMAIN strategy : strategy[key].is_frozen}

\* the caller's code, run for a leaf value, marks an information set that the
\* traversal is not at as decided: is_frozen becomes true
Freeze ==
    /\ Running
    /\ top.fn = "subgame_mccfr"
    /\ is_leaf(top.state)
    /\ Cardinality(FrozenKeys) < MaxFrozen
    /\ \E key \in (DOMAIN strategy) \ (StackKeys \cup FrozenKeys) :
         strategy' = [strategy EXCEPT ![key].is_frozen = TRUE]
    /\ UNCHANGED <<node_map, stack, ret, exc, callerVars>>

SubInit ==
    /\ raise_size = 2000
    /\ cards = <<>>
    /\ node_map = <<>>
    /\ strategy = <<>>
    /\ stack = <<>>
    /\ ret = None
    /\ exc = "none"
    /\ pc = "idle"
    /\ iterations = 0
    /\ t = 0
    /\ player = 0
    /\ combos = {}
    /\ expected = ZeroVec
    /\ log = NoLog

SubNext ==
    \/ SolveCall
    \/ SolveLoop
    \/ SolveUpdateStrategy
    \/ SolveMccfr
    \/ SolveNextPlayer
    \/ SolveDiscount
    \/ SolveReturn
    \/ SolveFail
    \/ SmStep
    \/ SuStep
    \/ Freeze
    \/ Unwind

\* subgame solving, the caller freezing information sets as it goes
SubSpec == SubInit /\ [][SubNext]_vars

(***************************************************************************)
(* Properties.                                                             *)
(***************************************************************************)
\* the node maps of a run keep the shape the prepared maps are drawn from
RegretShapeInv == RegretShape(node_map) /\ RegretShape(strategy)

\* traverse_tree is about to look up an information set missing from the map
AtUnexplored ==
    /\ TopIs("traverse_tree", "start")
    /\ ~is_terminal(top.state)
    /\ NodeKey(top.state) \notin DOMAIN node_map

\* C1: when the final evaluation reaches a non-terminal state whose
\* information set has no entry in the node map, the step taken there raises
\* the 'unexplored information set' error; the evaluation never goes on with
\* a default strategy for that information set.
C1_UnexploredFails == [][AtUnexplored => exc' # "none"]_vars

\* the regret of action a at the node of frame f when the node is visited
RegretAt(f, a) == Get(SetDefault(node_map, NodeKey(f.state))[NodeKey(f.state)].regret_sum, a)

\* the step recurses from the top frame into a child state
Recurses == Running /\ top.fn = "mccfr" /\ Len(stack') = Len(stack) + 1

\* C2: in an mccfr traversal run with pruning, whenever the traversal
\* recurses into the child state of an action, at a traversing-player node or
\* at a sampled node, the regret sum of that action at the node is above
\* regret_minimum.
C2_PrunedNeverExplored ==
    [][(Recurses /\ top.prune) =>
          LET hist == stack'[1].state.hist
          IN  RegretAt(top, hist[Len(hist)])[1] > regret_minimum * RegretAt(top, hist[Len(hist)])[2]]_vars

\* a pruned visit has skipped the first action and is exploring the second
C2_Witness ==
    /\ Len(stack) > 1
    /\ stack[2].fn = "mccfr"
    /\ stack[2].prune
    /\ stack[2].pc = "call"
    /\ stack[2].i = 2
    /\ stack[2].explored = {}
    /\ RLe(node_map[NodeKey(stack[2].state)].regret_sum["P"], FromInt(regret_minimum))

\* a pruned visit of a traversing-player node is about to update its regrets
VisitEnds ==
    /\ TopIs("mccfr", "loop")
    /\ top.prune
    /\ top.i > Len(valid_actions(top.state))

\* the loop of the top frame moves past an action without recursing into it
Skips ==
    /\ TopIs("mccfr", "loop")
    /\ Len(stack') = Len(stack)
    /\ stack'[1].i = top.i + 1

\* C3: at a traversing-player node visited with prune = true a skipped
\* action adds nothing to the expected value and to the utilities, and its
\* regret sum is left unchanged by the visit; the expected value of the
\* actor is the strategy-weighted sum over the explored actions only, and
\* each explored action receives utility(a) - expected_value[actor].
C3_SkippedUntouched ==
    [][/\ Skips =>
            /\ stack'[1].expected_value = top.expected_value
            /\ stack'[1].utilities = top.utilities
            /\ stack'[1].explored = top.explored
            /\ node_map' = node_map
       /\ VisitEnds =>
            LET key == NodeKey(top.state)
                actor == turn(top.state)
                valid == valid_actions(top.state)
                part == [a \in Range(valid) |->
                            IF a \in top.explored
                            THEN RMul(top.strategy[a], top.utilities[a])
                            ELSE Zero]
            IN  /\ top.expected_value[actor] = SumOver(part, valid)
                /\ \A a \in Range(valid) \ top.explored :
                      node_map'[key].regret_sum[a] = node_map[key].regret_sum[a]
                /\ \A a \in top.explored :
                      node_map'[key].regret_sum[a] =
                          RAdd(node_map[key].regret_sum[a],
                               RSub(top.utilities[a], top.expected_value[actor]))]_vars

\* a pruned visit has just ended with one action skipped and one explored
C3_Witness ==
    /\ pc = "busy"
    /\ log.visit.prune
    /\ log.visit.skipped # {}
    /\ log.visit.explored # {}

\* m2 is m1 with every regret and strategy entry multiplied by d, the key
\* sets and the frozen flags as they were
ScaledBy(m1, m2, d) ==
    /\ DOMAIN m2 = DOMAIN m1
    /\ \A key \in DOMAIN m1 :
          /\ DOMAIN m2[key].regret_sum = DOMAIN m1[key].regret_sum
          /\ DOMAIN m2[key].strategy_sum = DOMAIN m1[key].strategy_sum
          /\ m2[key].is_frozen = m1[key].is_frozen
          /\ \A a \in DOMAIN m1[key].regret_sum :
                m2[key].regret_sum[a] = RMul(m1[key].regret_sum[a], d)
          /\ \A a \in DOMAIN m1[key].strategy_sum :
                m2[key].strategy_sum[a] = RMul(m1[key].strategy_sum[a], d)

\* train is between two traversals and changes the node map itself
RescalesOutsideTraversal == stack = <<>> /\ stack' = <<>> /\ node_map' # node_map

\* train leaves the end-of-iteration point of iteration t
EndsIteration == pc = "discount" /\ pc' # "discount"

\* C4: during train the sums are rescaled only at the end of an iteration t,
\* after the traversals of every player, and exactly when t < lcfr_threshold
\* and t % discount_interval = 0, by t/(t + discount_interval); no iteration
\* t >= lcfr_threshold rescales anything, so that discounting happens at
\* t = 100, 200 and 300 only.
C4_DiscountSchedule ==
    [][/\ RescalesOutsideTraversal =>
            /\ pc = "discount"
            /\ player = num_players
            /\ t < lcfr_threshold
            /\ t % discount_interval = 0
       /\ EndsIteration =>
            /\ Len(SelectSeq(log.calls, LAMBDA c : c[2] = "mccfr")) = num_players
            /\ IF t < lcfr_threshold /\ t % discount_interval = 0
               THEN /\ ScaledBy(node_map, node_map', Rat(t, t + discount_interval))
                    /\ log.discounts' = log.discounts \cup {t}
               ELSE /\ node_map' = node_map
                    /\ log.discounts' = log.discounts
       /\ log.discounts' \subseteq {100, 200, 300}]_vars

\* a run longer than lcfr_threshold has completed, discounted three times
C4_Witness ==
    /\ pc = "done"
    /\ iterations > lcfr_threshold
    /\ log.completed = iterations
    /\ log.discounts = {100, 200, 300}
    /\ \E key \in DOMAIN node_map : node_map[key].regret_sum["P"] # Zero

RECURSIVE FactorProduct(_)
\* the product of the factors t/(t + discount_interval) of a list of calls
FactorProduct(ts) ==
    IF ts = <<>> THEN One
    ELSE RMul(Rat(Head(ts), Head(ts) + discount_interval), FactorProduct(Tail(ts)))

\* the step is a direct call discount(tt)
Discounts == log.ts' # log.ts

\* C5: discount(t) for t >= 1 multiplies every regret_sum and strategy_sum
\* entry of every information set of every player by the same factor
\* d = k/(k+1), k = t/discount_interval, with 0 < d < 1, and keeps the key
\* sets; successive discounts leave the state of a single scaling by the
\* product of their factors.
C5_DiscountScales ==
    [][Discounts =>
          LET tt == log.ts'[Len(log.ts')]
              d == Rat(tt, tt + discount_interval)
          IN  /\ tt >= 1
              /\ 0 < d[1]
              /\ d[1] < d[2]
              /\ ScaledBy(node_map, node_map', d)
              /\ ScaledBy(log.base', node_map', FactorProduct(log.ts'))]_vars

\* two discounts in a row on a node map with non-zero sums
C5_Witness ==
    /\ Len(log.ts) = 2
    /\ log.ts[1] # log.ts[2]
    /\ \E key \in DOMAIN node_map :
          /\ node_map[key].regret_sum["P"] # Zero
          /\ node_map[key].strategy_sum["P"] # Zero
          /\ node_map[key].regret_sum["P"] # log.base[key].regret_sum["P"]

\* the calls train has made in the iteration, as <<player, function>> pairs
CallsMade == [k \in 1 .. Len(log.calls) |-> <<log.calls[k][1], log.calls[k][2]>>]

\* no strategy_sum entry of the node map is incremented by the step
StrategySumsKept ==
    \A key \in DOMAIN node_map' :
        IF key \in DOMAIN node_map
        THEN node_map'[key].strategy_sum = node_map[key].strategy_sum
        ELSE \A a \in DOMAIN node_map'[key].strategy_sum :
                node_map'[key].strategy_sum[a] = Zero

\* C6: in train update_strategy is run for a player in iteration t if and
\* only if t % strategy_interval = 0, once per player and before that
\* player's mccfr traversal; in every other iteration no strategy_sum entry
\* is incremented.
C6_StrategySchedule ==
    [][/\ EndsIteration =>
            CallsMade = IF t % strategy_interval = 0
                        THEN <<<<0, "update_strategy">>, <<0, "mccfr">>,
                               <<1, "update_strategy">>, <<1, "mccfr">>>>
                        ELSE <<<<0, "mccfr">>, <<1, "mccfr">>>>
       /\ (pc \in {"player", "updated", "traversed", "discount"}
             /\ t % strategy_interval # 0) => StrategySumsKept
       /\ (Running /\ top.fn = "update_strategy") =>
             /\ t % strategy_interval = 0
             /\ pc = "updated"]_vars

\* iteration strategy_interval has run update_strategy and mccfr for both
\* players and the strategy sums have been incremented
C6_Witness ==
    /\ pc = "discount"
    /\ t = strategy_interval
    /\ Len(log.calls) = 2 * num_players
    /\ \E key \in DOMAIN node_map :
          \E a \in DOMAIN node_map[key].strategy_sum :
             RLt(Zero, node_map[key].strategy_sum[a])

\* the pruning modes of the mccfr calls of the iteration, in player order
MccfrModes ==
    LET calls == SelectSeq(log.calls, LAMBDA c : c[2] = "mccfr")
    IN  [k \in 1 .. Len(calls) |-> <<calls[k][1], calls[k][3]>>]

\* C7: every iteration of train runs exactly one mccfr traversal per player;
\* for t <= prune_threshold the traversal is unpruned and skips no action
\* whatever its regret; only for t > prune_threshold a traversal may be
\* pruned, each player's mode being chosen on its own.
C7_PruneSchedule ==
    [][/\ EndsIteration =>
            /\ Len(MccfrModes) = num_players
            /\ \A k \in 1 .. num_players : MccfrModes[k][1] = k - 1
            /\ t <= prune_threshold => \A k \in 1 .. num_players : ~MccfrModes[k][2]
       /\ (Running /\ top.fn = "mccfr" /\ top.prune) => t > prune_threshold
       /\ Skips => t > prune_threshold
       /\ (pc = "player" /\ pc' = "traversed" /\ t > prune_threshold) =>
             /\ ENABLED (TrainMccfr /\ stack'[1].prune)
             /\ ENABLED (TrainMccfr /\ ~stack'[1].prune)]_vars

\* an iteration past prune_threshold in which player 0 was traversed with
\* pruning, skipping an action, and player 1 is traversed without
C7_Witness ==
    /\ t > prune_threshold
    /\ MccfrModes = <<<<0, TRUE>>, <<1, FALSE>>>>
    /\ log.visit.skipped # {}
    /\ \E key \in DOMAIN node_map :
          RLe(node_map[key].regret_sum["P"], FromInt(regret_minimum))

\* C9: a failure raised inside a traversal started by train reaches train's
\* caller as that same failure, unchanged in kind.
C9_FailureUnchanged == [][exc # "none" => exc' = exc]_vars

\* no iteration or traversal starts once a failure has been raised
NoRetryAfterFailure ==
    [][exc # "none" =>
          /\ stack' = stack \/ (stack # <<>> /\ stack' = Tail(stack))
          /\ t' = t
          /\ node_map' = node_map]_vars

\* C10: absent a failure train(cards, n) with a finite game tree eventually
\* completes, after exactly n iterations: every traversal started returns,
\* and the loop is neither cut short nor extended.
C10_Completes ==
    /\ [](pc = "done" => log.completed = iterations /\ t = iterations + 1)
    /\ [](log.completed <= iterations)
    /\ (pc = "loop") ~> (pc = "done")
    /\ (stack # <<>>) ~> (stack = <<>>)

\* the longest run has completed all its iterations
C10_Witness ==
    /\ pc = "done"
    /\ iterations = MaxIter
    /\ log.completed = MaxIter
    /\ raise_size = 1

\* the sums of every frozen information set are left as they are by the step
FrozenKept ==
    \A key \in DOMAIN strategy :
        strategy[key].is_frozen =>
            /\ key \in DOMAIN strategy'
            /\ strategy'[key].regret_sum = strategy[key].regret_sum
            /\ strategy'[key].strategy_sum = strategy[key].strategy_sum

\* C8: in the subgame solver no step of a resolve pass (subgame_mccfr,
\* subgame_update_strategy, the discount step of subgame_solve) changes the
\* regret_sum or the strategy_sum of an information set whose is_frozen flag
\* is true.
C8_FrozenNeverChanged == [][FrozenKept]_vars

\* a resolve pass that reaches a frozen information set fails explicitly
FrozenVisitFails ==
    [][(Running /\ top.pc = "start" /\ ~is_terminal(top.state)
          /\ NodeKey(top.state) \in FrozenKeys) => exc' = "NotImplementedError"]_vars

\* mccfr is at a non-terminal state of an actor other than the traverser
AtSampledNode ==
    /\ TopIs("mccfr", "start")
    /\ ~is_terminal(top.state)
    /\ turn(top.state) # top.player

\* action a has positive probability under regret matching on the regrets r:
\* its regret is positive, or no regret is and the strategy is uniform
PositiveProbability(r, a) ==
    \/ Get(r, a)[1] > 0
    \/ \A b \in DOMAIN r : r[b][1] <= 0

\* the value the top frame hands to its caller when it returns
ReturnedValue(f) == IF f.pc = "start" THEN payoff(f.state) ELSE f.expected_value

\* the top frame returns to a caller waiting at position where
ReturnsTo(where) ==
    /\ Running
    /\ top.fn = "mccfr"
    /\ Len(stack) > 1
    /\ stack[2].pc = where
    /\ Len(stack') = Len(stack) - 1

\* C11: in mccfr, at a non-terminal state of an actor other than the
\* traverser exactly one child is recursed into, for a legal action of
\* positive probability in the node's instantaneous strategy; the child's
\* utility vector is returned unchanged and the node's sums are not modified.
\* At a traversing-player node without pruning every legal action is
\* recursed into exactly once, in order.
C11_SampleOnce ==
    [][/\ AtSampledNode =>
            LET key == NodeKey(top.state)
                before == SetDefault(node_map, key)
                hist == stack'[1].state.hist
            IN  /\ Len(stack') = Len(stack) + 1
                /\ stack'[2] = [top EXCEPT !.pc = "tail"]
                /\ \E a \in Range(valid_actions(top.state)) :
                      /\ stack'[1].state = add(top.state, a)
                      /\ PositiveProbability(before[key].regret_sum, a)
                /\ stack'[1].player = top.player
                /\ node_map' = before
       /\ ReturnsTo("tail") =>
            /\ stack'[1].pc = "return"
            /\ stack'[1].expected_value = ReturnedValue(top)
            /\ top.pc = "start" => node_map' = node_map
       /\ TopIs("mccfr", "return") =>
            /\ node_map' = node_map
            /\ Len(stack) = 1 => ret' = top.expected_value
            /\ Len(stack) > 1 => Len(stack') = Len(stack) - 1
       /\ (TopIs("mccfr", "loop") /\ ~top.prune /\ top.i <= Len(valid_actions(top.state))) =>
            /\ Len(stack') = Len(stack) + 1
            /\ stack'[1].state = add(top.state, valid_actions(top.state)[top.i])
            /\ stack'[2] = [top EXCEPT !.pc = "call"]
       /\ ReturnsTo("call") =>
            /\ stack'[1].pc = "loop"
            /\ stack'[1].i = stack[2].i + 1
       /\ (TopIs("mccfr", "start") /\ ~is_terminal(top.state)
             /\ turn(top.state) = top.player) =>
            /\ stack'[1].pc = "loop"
            /\ stack'[1].i = 1
            /\ Len(stack') = Len(stack)]_vars

\* a sampled node whose strategy gives an action probability zero hands the
\* utility vector of its one child back to the caller of mccfr
C11_Witness ==
    /\ pc = "busy"
    /\ stack = <<>>
    /\ exc = "none"
    /\ ret # None
    /\ ret[0] # Zero
    /\ RootKey \in DOMAIN node_map
    /\ node_map[RootKey].regret_sum["P"][1] > 0
    /\ node_map[RootKey].regret_sum["B"][1] < 0
    /\ log.visit.key = OtherKey

\* update_strategy is at a non-terminal state
UsVisits == TopIs("update_strategy", "start") /\ ~is_terminal(top.state)

\* no regret_sum entry of the node map is changed by the step
RegretSumsKept ==
    \A key \in DOMAIN node_map' :
        IF key \in DOMAIN node_map
        THEN node_map'[key].regret_sum = node_map[key].regret_sum
        ELSE \A a \in DOMAIN node_map'[key].regret_sum :
                node_map'[key].regret_sum[a] = Zero

\* C12: update_strategy(player, state), at a visited node where player acts,
\* samples exactly one legal action, increments strategy_sum of that action
\* by exactly 1 and recurses only into that action's child; at a visited
\* node of another actor it recurses into every legal action and leaves the
\* node's strategy_sum unchanged; it changes no regret_sum entry.
C12_UpdateStrategyEffect ==
    [][/\ (Running /\ top.fn = "update_strategy") => RegretSumsKept
       /\ (UsVisits /\ turn(top.state) = top.player) =>
            LET key == NodeKey(top.state)
                before == SetDefault(node_map, key)
            IN  /\ Len(stack') = Len(stack) + 1
                /\ stack'[2] = [top EXCEPT !.pc = "tail"]
                /\ \E a \in Range(valid_actions(top.state)) :
                      /\ stack'[1].state = add(top.state, a)
                      /\ PositiveProbability(before[key].regret_sum, a)
                      /\ node_map'[key].strategy_sum[a] =
                            RAdd(before[key].strategy_sum[a], One)
                      /\ \A b \in DOMAIN before[key].strategy_sum \ {a} :
                            node_map'[key].strategy_sum[b] = before[key].strategy_sum[b]
                /\ \A other \in DOMAIN node_map' \ {key} :
                      node_map'[other] = node_map[other]
       /\ (Running /\ top.fn = "update_strategy" /\ Len(stack) > 1
             /\ stack[2].pc = "tail" /\ Len(stack') = Len(stack) - 1) =>
            stack'[1].pc = "return"
       /\ TopIs("update_strategy", "return") =>
            /\ Len(stack') = Len(stack) - 1
            /\ node_map' = node_map
       /\ (UsVisits /\ turn(top.state) # top.player) =>
            /\ node_map' = SetDefault(node_map, NodeKey(top.state))
            /\ stack'[1].pc = "loop"
            /\ stack'[1].i = 1
            /\ Len(stack') = Len(stack)
       /\ TopIs("update_strategy", "loop") =>
            /\ node_map' = node_map
            /\ IF top.i <= Len(valid_actions(top.state))
               THEN /\ Len(stack') = Len(stack) + 1
                    /\ stack'[1].state = add(top.state, valid_actions(top.state)[top.i])
                    /\ stack'[2] = [top EXCEPT !.pc = "call"]
               ELSE Len(stack') = Len(stack) - 1
       /\ (Running /\ top.fn = "update_strategy" /\ Len(stack) > 1
             /\ stack[2].pc = "call" /\ Len(stack') = Len(stack) - 1) =>
            /\ stack'[1].pc = "loop"
            /\ stack'[1].i = stack[2].i + 1]_vars

\* update_strategy for player 0 has counted an action at the root, is in the
\* second branch of player 1's node and has counted an action below it
C12_Witness ==
    /\ Len(stack) = 3
    /\ exc = "none"
    /\ top.fn = "update_strategy"
    /\ top.player = 0
    /\ top.pc = "return"
    /\ stack[2].pc = "call"
    /\ stack[2].i = 2
    /\ stack[3].pc = "tail"
    /\ \E a \in {"P", "B"} : RLt(One, node_map[NodeKey(top.state)].strategy_sum[a])

\* C13: at a traversing-player node visited by mccfr with prune = true at
\* least one action is explored, every skipped action has probability 0 in
\* the instantaneous strategy and the probabilities of the explored actions
\* sum to 1; each explored child's utility vector enters the expected value
\* with its probability, so the value returned is a full weighted average.
C13_ExploredSumToOne ==
    [][/\ VisitEnds =>
            LET valid == valid_actions(top.state)
                mass == [a \in Range(valid) |->
                            IF a \in top.explored THEN top.strategy[a] ELSE Zero]
            IN  /\ top.explored # {}
                /\ top.explored \subseteq Range(valid)
                /\ SumOver(mass, valid) = One
                /\ \A a \in Range(valid) \ top.explored : top.strategy[a] = Zero
       /\ (ReturnsTo("call") /\ stack[2].prune) =>
            LET f == stack[2]
                a == valid_actions(f.state)[f.i]
            IN  /\ stack'[1].expected_value =
                      VecAdd(f.expected_value, VecScale(ReturnedValue(top), f.strategy[a]))
                /\ stack'[1].explored = f.explored \cup {a}
       /\ (TopIs("mccfr", "start") /\ ~is_terminal(top.state)
             /\ turn(top.state) = top.player /\ top.prune /\ exc' = "none") =>
            /\ stack'[1].pc = "loop"
            /\ stack'[1].expected_value = ZeroVec
            /\ stack'[1].explored = {}
            /\ \A a \in Range(valid_actions(top.state)) :
                  stack'[1].strategy[a] # Zero =>
                     PositiveProbability(
                        SetDefault(node_map, NodeKey(top.state))[NodeKey(top.state)].regret_sum, a)]_vars

\* past prune_threshold a pruned visit has skipped an action whose regret is
\* at or below regret_minimum and has explored the other
C13_Witness ==
    /\ pc = "traversed"
    /\ t > prune_threshold
    /\ log.visit.prune
    /\ log.visit.skipped # {}
    /\ log.visit.explored # {}
    /\ \A a \in log.visit.skipped :
          RLe(node_map[log.visit.key].regret_sum[a], FromInt(regret_minimum))

\* the step leaves the strategy_sum of every information set of an actor
\* other than p as it was
OthersStrategySumsKept(p) ==
    \A key \in DOMAIN strategy' :
        key[1] # p =>
            IF key \in DOMAIN strategy
            THEN strategy'[key].strategy_sum = strategy[key].strategy_sum
            ELSE \A a \in DOMAIN strategy'[key].strategy_sum :
                    strategy'[key].strategy_sum[a] = Zero

\* C14: subgame_update_strategy(player, tree_node) increments strategy_sum
\* only at information sets where player acts; the strategy_sum of every
\* information set of another actor is left unchanged, at inner nodes and at
\* leaves of the tree alike.
C14_OnlyOwnStrategySum ==
    [][(Running /\ top.fn = "subgame_update_strategy") =>
          OthersStrategySumsKept(top.player)]_vars

\* at the inner nodes of another actor subgame_update_strategy changes no sum
InnerNodesKept ==
    [][(Running /\ top.fn = "subgame_update_strategy" /\ ~is_leaf(top.state)) =>
          OthersStrategySumsKept(top.player)]_vars

====
